---- MODULE Spec2Model ----
(***************************************************************************)
(* State-machine model of Screenshot.py: the overlay session (create /     *)
(* destroy), the rectangle drag/resize handlers bound to the canvas, the   *)
(* options dialog (Save / Cancel / Enter), the delayed-capture timer, the  *)
(* capture and delivery pipeline, and the global keyboard listener         *)
(* (Print Screen, Escape).                                                 *)
(*                                                                         *)
(* Coordinates: the canvas fills the overlay window, which is placed at    *)
(* +min_x+min_y of the virtual desktop, so a canvas coordinate c is the    *)
(* screen coordinate c + min.  Monitor rectangles, the pointer read by     *)
(* winfo_pointerxy / GetCursorPos and the ImageGrab bounding box are in    *)
(* screen coordinates; event.x / event.y and canvas.coords are in canvas   *)
(* coordinates.                                                            *)
(***************************************************************************)
EXTENDS Integers, Sequences, FiniteSets, TLC

\* ------------------------------------------------------------------ bounds
\* Number of Print Screen presses (sessions opened) explored in one run.
MaxSessions == 2
\* Number of threading.Timer objects that may be pending at the same time.
MaxTimers == 2
\* Number of button presses handled on one overlay.
MaxPresses == 2
\* Number of screen grabs counted after one create_overlay call.
MaxGrabs == 2

\* ------------------------------------------------------- program constants
HANDLE_SIZE == 10
RECTANGLE_DEFAULT_BORDER == 5

\* The value None of the global rectangle (and of canvas, set with it).
None == <<>>

\* ------------------------------------------------------------ pure helpers
Min(a, b) == IF a < b THEN a ELSE b
Max(a, b) == IF a > b THEN a ELSE b

\* create_overlay: min_x, min_y, max_x, max_y, total_width, total_height.
RECURSIVE VirtualMinX(_)
VirtualMinX(monitors) ==
  IF Len(monitors) = 1 THEN monitors[1].x
  ELSE Min(monitors[1].x, VirtualMinX(Tail(monitors)))
RECURSIVE VirtualMinY(_)
VirtualMinY(monitors) ==
  IF Len(monitors) = 1 THEN monitors[1].y
  ELSE Min(monitors[1].y, VirtualMinY(Tail(monitors)))
RECURSIVE VirtualMaxX(_)
VirtualMaxX(monitors) ==
  IF Len(monitors) = 1 THEN monitors[1].x + monitors[1].width
  ELSE Max(monitors[1].x + monitors[1].width, VirtualMaxX(Tail(monitors)))
RECURSIVE VirtualMaxY(_)
VirtualMaxY(monitors) ==
  IF Len(monitors) = 1 THEN monitors[1].y + monitors[1].height
  ELSE Max(monitors[1].y + monitors[1].height, VirtualMaxY(Tail(monitors)))
TotalWidth(monitors) == VirtualMaxX(monitors) - VirtualMinX(monitors)
TotalHeight(monitors) == VirtualMaxY(monitors) - VirtualMinY(monitors)

\* if min_x < 0: canvas_offset_x = -min_x   (no else branch: the global keeps
\* its previous value otherwise).
NewCanvasOffsetX(monitors, old) ==
  IF VirtualMinX(monitors) < 0 THEN 0 - VirtualMinX(monitors) ELSE old

\* The loop that finds the monitor under the pointer, with its fallback.
MonitorContains(m, px, py) ==
  /\ m.x <= px /\ px < m.x + m.width
  /\ m.y <= py /\ py < m.y + m.height

\* Index of the first monitor containing the point; 0 when the loop ends
\* without a match.
RECURSIVE FirstContaining(_, _, _, _)
FirstContaining(i, monitors, px, py) ==
  IF i > Len(monitors) THEN 0
  ELSE IF MonitorContains(monitors[i], px, py) THEN i
  ELSE FirstContaining(i + 1, monitors, px, py)

CurrentMonitor(monitors, px, py) ==
  IF FirstContaining(1, monitors, px, py) = 0
  THEN monitors[1]
  ELSE monitors[FirstContaining(1, monitors, px, py)]

\* load_config: the file's record, or default_config when there is no file.
DefaultOptions ==
  [capture_pointer |-> FALSE, save_clipboard |-> TRUE,
   save_folder |-> FALSE, delay_screenshot |-> FALSE]

DefaultConfig ==
  [rectangle |-> [x |-> 0, y |-> 0, width |-> 0, height |-> 0],
   dialog |-> DefaultOptions]

LoadConfig(file) == IF file = <<>> THEN DefaultConfig ELSE file[1]

\* load_rectangle_config: (x, y, width, height) of the loaded record.
LoadRectangleConfig(file) ==
  LET r == LoadConfig(file).rectangle
  IN  <<r.x, r.y, r.width, r.height>>

\* The validation of the loaded rectangle against the current monitor.
RectangleConfigValid(m, off, rx, ry, w, h) ==
  /\ m.x <= rx - off /\ rx - off < m.x + m.width
  /\ m.y <= ry /\ ry < m.y + m.height
  /\ m.x <= rx + w - off /\ rx + w - off < m.x + m.width
  /\ m.y <= ry + h /\ ry + h < m.y + m.height

\* The reset with the top-left corner, not the middle, of the rectangle put
\* on the monitor's centre.
CenteredRectangleCornerAtCentre(m, off) ==
  <<m.x + (m.width \div 2) + off, m.y + (m.height \div 2),
    m.width \div 2, m.height \div 2>>

\* The reset to the centre of the current monitor.
CenteredRectangle(m, off) ==
  LET w == m.width \div 2
      h == m.height \div 2
  IN  <<m.x + (m.width \div 2) - (w \div 2) + off,
        m.y + (m.height \div 2) - (h \div 2), w, h>>

\* (rect_x, rect_y, width, height) that create_overlay draws.
InitialGeometry(file, m, off) ==
  LET g == LoadRectangleConfig(file)
  IN  IF RectangleConfigValid(m, off, g[1], g[2], g[3], g[4])
      THEN g
      ELSE CenteredRectangle(m, off)

\* What canvas.coords(rectangle) holds after the item's coordinates are set
\* to (a, b, c, d): Tk keeps a rectangle item's first corner the lower one.
CanvasCoords(a, b, c, d) == <<Min(a, c), Min(b, d), Max(a, c), Max(b, d)>>

\* The handles with the four edge midpoints inserted before the corners.
HandleOrderMidsFirst ==
  <<"top_mid", "bottom_mid", "left_mid", "right_mid",
    "top_left", "top_right", "bottom_left", "bottom_right">>

\* The eight handle boxes derived from the rectangle's coordinates, in the
\* insertion order of the resize_handles dict.
HandleOrder ==
  <<"top_left", "top_right", "bottom_left", "bottom_right",
    "top_mid", "bottom_mid", "left_mid", "right_mid">>

HandleNames == {HandleOrder[i] : i \in 1..Len(HandleOrder)}

HalfHandle == HANDLE_SIZE \div 2

HandleBox(cx, cy) ==
  <<cx - HalfHandle, cy - HalfHandle, cx + HalfHandle, cy + HalfHandle>>

HandleBoxes(rc) ==
  LET mx == rc[1] + ((rc[3] - rc[1]) \div 2)
      my == rc[2] + ((rc[4] - rc[2]) \div 2)
  IN  [h \in HandleNames |->
        CASE h = "top_left" -> HandleBox(rc[1], rc[2])
          [] h = "top_right" -> HandleBox(rc[3], rc[2])
          [] h = "bottom_left" -> HandleBox(rc[1], rc[4])
          [] h = "bottom_right" -> HandleBox(rc[3], rc[4])
          [] h = "top_mid" -> HandleBox(mx, rc[2])
          [] h = "bottom_mid" -> HandleBox(mx, rc[4])
          [] h = "left_mid" -> HandleBox(rc[1], my)
          [] h = "right_mid" -> HandleBox(rc[3], my)]

\* start_drag's own test of a handle box against the press point.
InBox(b, x, y) == b[1] <= x /\ x <= b[3] /\ b[2] <= y /\ y <= b[4]

\* The for ... break loop over handle_coords.items(): the first handle, in
\* dict order, whose box contains the point; "none" when the loop falls
\* through to its else branch.
RECURSIVE FirstHandleFrom(_, _, _, _)
FirstHandleFrom(i, boxes, x, y) ==
  IF i > Len(HandleOrder) THEN "none"
  ELSE IF InBox(boxes[HandleOrder[i]], x, y) THEN HandleOrder[i]
  ELSE FirstHandleFrom(i + 1, boxes, x, y)

HitHandle(boxes, x, y) == FirstHandleFrom(1, boxes, x, y)

\* ------------------------------------------------------------------- state
VARIABLES
  config,           \* screenshot_config.json: <<the record>>, <<>> if no file
  overlay_window,   \* "none" (None) | "shown" | "withdrawn"
  overlay_origin,   \* <<min_x, min_y>> of the overlay's geometry
  canvas_offset_x,  \* the global canvas_offset_x
  rectangle,        \* canvas.coords(rectangle), or None with canvas = None
  resize_handles,   \* the handle items' boxes; <<>> when cleared
  drag_data,        \* the global drag_data
  pressed,          \* button 1 is held on a canvas item of the overlay
  dialog,           \* the global dialog: index into dialogs, 0 for None
  dialogs,          \* every Toplevel made by show_dialog: state and options
  timers,           \* pending threading.Timer objects (take_screenshot closures)
  session,          \* number of create_overlay calls so far
  presses,          \* number of start_drag calls on the current overlay
  pointer,          \* (event.x, event.y) of the last press or motion event
                    \* handled on the current overlay, <<0, 0>> before it
  lastCapture       \* <<the last ImageGrab.grab call since the latest
                    \* create_overlay>>, <<>> if there was none; n counts
                    \* the grabs since that create_overlay

vars ==
  <<config, overlay_window, overlay_origin, canvas_offset_x, rectangle,
    resize_handles, drag_data, pressed, dialog, dialogs, timers, session,
    presses, pointer, lastCapture>>

\* The press reaches start_drag only through the tag bindings of the rectangle
\* item (an outline of width RECTANGLE_DEFAULT_BORDER, no fill) and of the
\* handle items (filled boxes).
HalfBorder == RECTANGLE_DEFAULT_BORDER \div 2

OnOutline(rc, x, y) ==
  /\ rc[1] - HalfBorder <= x /\ x <= rc[3] + HalfBorder
  /\ rc[2] - HalfBorder <= y /\ y <= rc[4] + HalfBorder
  /\ ~ ( /\ rc[1] + HalfBorder < x /\ x < rc[3] - HalfBorder
         /\ rc[2] + HalfBorder < y /\ y < rc[4] - HalfBorder )

OnItem(rc, boxes, x, y) ==
  \/ \E h \in HandleNames : InBox(boxes[h], x, y)
  \/ OnOutline(rc, x, y)

\* ------------------------------------------------------------------ inputs
Monitor(x, y, w, h) == [x |-> x, y |-> y, width |-> w, height |-> h]

\* get_monitors(): the primary monitor alone, with a second monitor to its
\* left (negative x), with a second monitor above it (negative y).
LayoutSingle == <<Monitor(0, 0, 80, 60)>>
LayoutLeft == <<Monitor(0, 0, 80, 60), Monitor(0 - 80, 0, 80, 60)>>
LayoutAbove == <<Monitor(0, 0, 80, 60), Monitor(0, 0 - 60, 80, 60)>>
Layouts == {LayoutSingle, LayoutLeft, LayoutAbove}

\* root.winfo_pointerxy() at the Print Screen press (screen coordinates).
MousePoints == {<<40, 30>>, <<0 - 40, 30>>, <<40, 0 - 30>>}

\* A record written by an earlier run with the second monitor on the left:
\* a 40 x 30 rectangle on the left monitor.
SavedLeft ==
  [rectangle |-> [x |-> 20, y |-> 15, width |-> 40, height |-> 30],
   dialog |-> DefaultOptions]

InitConfigs == {<<>>, <<SavedLeft>>}

\* A 1280 x 800 desktop: the monitor alone, and with a second one to its left.
DesktopSingle == <<Monitor(0, 0, 1280, 800)>>
DesktopLeft == <<Monitor(0, 0, 1280, 800), Monitor(0 - 1280, 0, 1280, 800)>>
DesktopLayouts == {DesktopSingle, DesktopLeft}

\* Records found in the file on that desktop: a 400 x 300 rectangle at
\* (100, 100), and the same rectangle at (1500, 100).
SavedNear ==
  [rectangle |-> [x |-> 100, y |-> 100, width |-> 400, height |-> 300],
   dialog |-> DefaultOptions]
SavedFar ==
  [rectangle |-> [x |-> 1500, y |-> 100, width |-> 400, height |-> 300],
   dialog |-> DefaultOptions]
DesktopConfigs == {<<SavedNear>>, <<SavedFar>>}

OptionNames ==
  {"capture_pointer", "save_clipboard", "save_folder", "delay_screenshot"}

\* Press points tried on a rectangle (canvas coordinates): the eight handle
\* centres, and a point of the top border and one of the left border that
\* lie outside every handle box of a rectangle that is large enough.
PressPoints(rc) ==
  LET mx == rc[1] + ((rc[3] - rc[1]) \div 2)
      my == rc[2] + ((rc[4] - rc[2]) \div 2)
  IN  IF rc = None THEN {} ELSE
      {<<rc[1], rc[2]>>, <<rc[3], rc[2]>>, <<rc[1], rc[4]>>, <<rc[3], rc[4]>>,
       <<mx, rc[2]>>, <<mx, rc[4]>>, <<rc[1], my>>, <<rc[3], my>>,
       <<rc[1] + 10, rc[2]>>, <<rc[1], rc[2] + 15>>}

\* Press points on no canvas item: the centre of the rectangle's interior
\* (the rectangle item has no fill) and a point beyond its bottom-right corner.
CanvasPoints(rc) ==
  IF rc = None THEN {}
  ELSE {<<rc[1] + ((rc[3] - rc[1]) \div 2), rc[2] + ((rc[4] - rc[2]) \div 2)>>,
        <<rc[3] + 10, rc[4] + 10>>}

\* Pointer positions of B1-Motion events (canvas coordinates): a lattice over
\* the overlay of the single-monitor layout.
MovePoints == {<<20 * i, 15 * j>> : i \in 0..3, j \in 0..3}

\* The smaller input sets of the session-lifecycle specification.
FewPressPoints(rc) ==
  IF rc = None THEN {}
  ELSE {<<rc[1], rc[2]>>, <<rc[1] + 10, rc[2]>>}

\* The checkboxes clicked in the session-lifecycle specification.
FewOptionNames == {"delay_screenshot"}

FewMovePoints == {<<40, 30>>}

\* win32api.GetCursorPos() at capture time, relative to the grabbed box:
\* just inside its top-left corner, and on the corner itself.
CursorPoints(rc, off) ==
  IF rc = None THEN {}
  ELSE {<<rc[1] - off + 1, rc[2] + 1>>, <<rc[1] - off, rc[2]>>}

\* GetCursorPos() in the capture specification: also a point beyond the
\* bottom-right corner of the grabbed box and one just inside that corner.
MoreCursorPoints(rc, off) ==
  IF rc = None THEN {}
  ELSE CursorPoints(rc, off)
         \cup {<<rc[3] - off + 5, rc[4] + 5>>, <<rc[3] - off - 1, rc[4] - 1>>}

\* -------------------------------------------------------------------- Init
\* The module-level initial value of drag_data.
IdleDragData == [x |-> 0, y |-> 0, dragging |-> FALSE, resizing |-> "none"]
Init ==
  /\ config \in InitConfigs
  /\ overlay_window = "none"
  /\ overlay_origin = <<0, 0>>
  /\ canvas_offset_x = 0
  /\ rectangle = None
  /\ resize_handles = <<>>
  /\ drag_data = IdleDragData
  /\ pressed = FALSE
  /\ dialog = 0
  /\ dialogs = <<>>
  /\ timers = <<>>
  /\ session = 0
  /\ presses = 0
  /\ pointer = <<0, 0>>
  /\ lastCapture = <<>>

\* ----------------------------------------------------------------- actions

\* dialog.destroy() on the Toplevel the global names (destroying a destroyed
\* window again changes nothing).
DestroyDialog(ds, d) ==
  IF d = 0 THEN ds ELSE [ds EXCEPT ![d].state = "destroyed"]

\* dialog.withdraw().
WithdrawDialog(ds, d) ==
  IF d = 0 THEN ds ELSE [ds EXCEPT ![d].state = "withdrawn"]

\* create_overlay(), called by win32_event_filter on a Print Screen key-down.
CreateOverlay(monitors, mx, my) ==
  LET off == NewCanvasOffsetX(monitors, canvas_offset_x)
      m == CurrentMonitor(monitors, mx, my)
      g == InitialGeometry(config, m, off)
      corners == <<g[1], g[2], g[1] + g[3], g[2] + g[4]>>
  IN  /\ session < MaxSessions
      /\ session' = session + 1
      /\ canvas_offset_x' = off
      /\ overlay_window' = "shown"
      /\ overlay_origin' = <<VirtualMinX(monitors), VirtualMinY(monitors)>>
      /\ rectangle' = CanvasCoords(corners[1], corners[2], corners[3], corners[4])
      /\ resize_handles' = HandleBoxes(corners)
      /\ pressed' = FALSE
      /\ dialogs' = Append(dialogs,
                          [state |-> "shown", opts |-> LoadConfig(config).dialog])
      /\ dialog' = Len(dialogs) + 1
      /\ presses' = 0
      /\ pointer' = <<0, 0>>
      /\ lastCapture' = <<>>
      /\ UNCHANGED <<config, drag_data, timers>>

\* start_drag(event), bound to <ButtonPress-1> on the rectangle and handles.
StartDragData(dd, rc, boxes, x, y) ==
  IF HitHandle(boxes, x, y) /= "none"
  THEN [dd EXCEPT !.resizing = HitHandle(boxes, x, y)]
  ELSE [dd EXCEPT !.dragging = TRUE, !.x = x - rc[1], !.y = y - rc[2]]

StartDrag(x, y) ==
  /\ overlay_window = "shown"
  /\ ~pressed
  /\ presses < MaxPresses
  /\ presses' = presses + 1
  /\ pointer' = <<x, y>>
  /\ OnItem(rectangle, resize_handles, x, y)
  /\ drag_data' = StartDragData(drag_data, rectangle, resize_handles, x, y)
  /\ pressed' = TRUE
  /\ UNCHANGED <<config, overlay_window, overlay_origin, canvas_offset_x,
                 rectangle, resize_handles, dialog, dialogs, timers, session,
                 lastCapture>>

\* <ButtonPress-1> at a point of the canvas that is on no item: start_drag is
\* bound to the rectangle and handle items only, so no handler runs, and the
\* motion and release events of this press reach no item binding either.
PressElsewhere(x, y) ==
  /\ overlay_window = "shown"
  /\ ~pressed
  /\ presses < MaxPresses
  /\ ~OnItem(rectangle, resize_handles, x, y)
  /\ presses' = presses + 1
  /\ UNCHANGED <<config, overlay_window, overlay_origin, canvas_offset_x,
                 rectangle, resize_handles, drag_data, pressed, dialog, dialogs,
                 timers, session, pointer, lastCapture>>

\* The resize branch with the top_right case copied from top_left: it moves
\* the left edge instead of the right one.
ResizeArgsTopRightMovesLeft(h, rc, x, y) ==
  CASE h = "top_left" -> <<x, y, rc[3], rc[4]>>
    [] h = "top_right" -> <<x, y, rc[3], rc[4]>>
    [] h = "bottom_left" -> <<x, rc[2], rc[3], y>>
    [] h = "bottom_right" -> <<rc[1], rc[2], x, y>>
    [] h = "top_mid" -> <<rc[1], y, rc[3], rc[4]>>
    [] h = "bottom_mid" -> <<rc[1], rc[2], rc[3], y>>
    [] h = "left_mid" -> <<x, rc[2], rc[3], rc[4]>>
    [] h = "right_mid" -> <<rc[1], rc[2], x, rc[4]>>
    [] OTHER -> rc

\* The arguments drag(event) at (x, y) hands to canvas.coords(rectangle, ...)
\* in its resize branch and in its move branch.
ResizeArgs(h, rc, x, y) ==
  CASE h = "top_left" -> <<x, y, rc[3], rc[4]>>
    [] h = "top_right" -> <<rc[1], y, x, rc[4]>>
    [] h = "bottom_left" -> <<x, rc[2], rc[3], y>>
    [] h = "bottom_right" -> <<rc[1], rc[2], x, y>>
    [] h = "top_mid" -> <<rc[1], y, rc[3], rc[4]>>
    [] h = "bottom_mid" -> <<rc[1], rc[2], rc[3], y>>
    [] h = "left_mid" -> <<x, rc[2], rc[3], rc[4]>>
    [] h = "right_mid" -> <<rc[1], rc[2], x, rc[4]>>
    [] OTHER -> rc

MoveArgs(dd, rc, x, y) ==
  <<x - dd.x, y - dd.y,
    (x - dd.x) + (rc[3] - rc[1]), (y - dd.y) + (rc[4] - rc[2])>>

DragCoords(dd, rc, x, y) ==
  LET a == IF dd.dragging THEN MoveArgs(dd, rc, x, y)
           ELSE IF dd.resizing /= "none" THEN ResizeArgs(dd.resizing, rc, x, y)
           ELSE rc
  IN  CanvasCoords(a[1], a[2], a[3], a[4])

\* drag(event), bound to <B1-Motion>; update_resize_handles runs in both
\* branches that change the rectangle.
Drag(x, y) ==
  /\ overlay_window = "shown"
  /\ pressed
  /\ pointer' = <<x, y>>
  /\ rectangle' = DragCoords(drag_data, rectangle, x, y)
  /\ resize_handles' =
       IF drag_data.dragging \/ drag_data.resizing /= "none"
       THEN HandleBoxes(rectangle')
       ELSE resize_handles
  /\ UNCHANGED <<presses, config, overlay_window, overlay_origin, canvas_offset_x,
                 drag_data, pressed, dialog, dialogs, timers, session,
                 lastCapture>>

\* stop_drag(event), bound to <ButtonRelease-1>.
StopDrag ==
  /\ overlay_window = "shown"
  /\ pressed
  /\ drag_data' = [drag_data EXCEPT !.dragging = FALSE, !.resizing = "none"]
  /\ pressed' = FALSE
  /\ UNCHANGED <<pointer, presses, config, overlay_window, overlay_origin, canvas_offset_x,
                 rectangle, resize_handles, dialog, dialogs, timers, session,
                 lastCapture>>

\* A checkbox of a visible dialog is clicked.
ToggleOption(d, k) ==
  /\ dialogs[d].state = "shown"
  /\ dialogs' = [dialogs EXCEPT ![d].opts[k] = ~dialogs[d].opts[k]]
  /\ UNCHANGED <<pointer, presses, config, overlay_window, overlay_origin, canvas_offset_x,
                 rectangle, resize_handles, drag_data, pressed, dialog, timers,
                 session, lastCapture>>

\* capture_screenshot: the bounding box handed to ImageGrab.grab.
GrabBox(rc, off) == <<rc[1] - off, rc[2], rc[3] - off, rc[4]>>

\* The glyph drawn at the pointer's screen position, the box's corner not
\* subtracted.
PointerGlyphAtScreenPosition(capture_pointer, bbox, mx, my) ==
  IF /\ capture_pointer
     /\ bbox[1] < mx /\ mx < bbox[3]
     /\ bbox[2] < my /\ my < bbox[4]
  THEN <<mx, my>>
  ELSE None

\* capture_screenshot: where draw_mouse_pointer is asked to draw, None when
\* it is not called.
PointerGlyph(capture_pointer, bbox, mx, my) ==
  IF /\ capture_pointer
     /\ bbox[1] < mx /\ mx < bbox[3]
     /\ bbox[2] < my /\ my < bbox[4]
  THEN <<mx - bbox[1], my - bbox[2]>>
  ELSE None

\* save_screenshot: what became of each sink: "skipped" when it was not
\* requested, "notrun" when it was requested and never reached.  A failing
\* clipboard call raises before the file branch is reached.
ClipboardOutcome(opts, clipOk) ==
  IF ~opts.save_clipboard THEN "skipped"
  ELSE IF clipOk THEN "ok" ELSE "failed"

FileOutcome(opts, clipOk, fileOk) ==
  IF ~opts.save_folder THEN "skipped"
  ELSE IF ClipboardOutcome(opts, clipOk) = "failed" THEN "notrun"
  ELSE IF fileOk THEN "ok" ELSE "failed"

Delivered(opts, clipOk, fileOk) ==
  /\ ClipboardOutcome(opts, clipOk) /= "failed"
  /\ FileOutcome(opts, clipOk, fileOk) \in {"skipped", "ok"}

\* take_screenshot(), the closure made by on_save of dialog d with
\* rect_coords = rc: capture_screenshot, save_screenshot, destroy_overlay,
\* dialog.destroy().  overlay_window and dialog are the globals at the time of
\* the call; the option variables are those of dialog d.  Withdrawing a
\* destroyed dialog raises TclError, a failing sink raises too, and either
\* ends the closure where it stands.
TakeScreenshot(rc, d, t, cursor, clipOk, fileOk) ==
  LET hidden == IF overlay_window = "none" THEN "none" ELSE "withdrawn"
      opts == dialogs[d].opts
      bbox == GrabBox(rc, canvas_offset_x)
      grab == [n |-> IF lastCapture = <<>> THEN 1 ELSE lastCapture[1].n + 1,
               capture_pointer |-> opts.capture_pointer,
               bbox |-> bbox, rect |-> rc, origin |-> overlay_origin,
               offset |-> canvas_offset_x,
               from |-> t.session, at |-> session,
               timer |-> t.timer, escaped |-> t.escaped,
               overlay |-> hidden,
               dialog |-> WithdrawDialog(dialogs, dialog)[dialog].state,
               glyph |-> PointerGlyph(opts.capture_pointer, bbox,
                                      cursor[1], cursor[2]),
               clipboard |-> ClipboardOutcome(opts, clipOk),
               file |-> FileOutcome(opts, clipOk, fileOk)]
  IN  IF dialogs[dialog].state = "destroyed"
      THEN /\ overlay_window' = hidden
           /\ pressed' = FALSE
           /\ UNCHANGED <<rectangle, resize_handles, dialogs, lastCapture>>
      ELSE /\ grab.n <= MaxGrabs
           /\ lastCapture' = <<grab>>
           /\ pressed' = FALSE
           /\ IF Delivered(opts, clipOk, fileOk)
              THEN /\ overlay_window' = "none"
                   /\ rectangle' = None
                   /\ resize_handles' = <<>>
                   /\ dialogs' = DestroyDialog(dialogs, dialog)
              ELSE /\ overlay_window' = hidden
                   /\ dialogs' = WithdrawDialog(dialogs, dialog)
                   /\ UNCHANGED <<rectangle, resize_handles>>

\* The record with the bottom-right corner written as width and height.
NewConfigCornerAsSize(rc, opts) ==
  [rectangle |-> [x |-> rc[1], y |-> rc[2], width |-> rc[3], height |-> rc[4]],
   dialog |-> opts]

\* The record on_save writes with save_config.
NewConfig(rc, opts) ==
  [rectangle |-> [x |-> rc[1], y |-> rc[2],
                  width |-> rc[3] - rc[1], height |-> rc[4] - rc[2]],
   dialog |-> opts]

\* on_save() of dialog d with the screenshot taken at once: the Save button
\* or the Return key, delay_screenshot unchecked.
OnSaveNow(d, cursor, clipOk, fileOk) ==
  /\ dialogs[d].state = "shown"
  /\ rectangle /= None
  /\ ~dialogs[d].opts.delay_screenshot
  /\ config' = <<NewConfig(rectangle, dialogs[d].opts)>>
  /\ TakeScreenshot(rectangle, d,
                    [session |-> session, timer |-> FALSE, escaped |-> FALSE],
                    cursor, clipOk, fileOk)
  /\ UNCHANGED <<pointer, presses, overlay_origin, canvas_offset_x, drag_data, dialog, timers,
                 session>>

\* on_save() of dialog d with delay_screenshot checked: threading.Timer(5,
\* take_screenshot).start().
OnSaveDelayed(d) ==
  /\ dialogs[d].state = "shown"
  /\ rectangle /= None
  /\ dialogs[d].opts.delay_screenshot
  /\ Len(timers) < MaxTimers
  /\ config' = <<NewConfig(rectangle, dialogs[d].opts)>>
  /\ timers' = Append(timers, [rect |-> rectangle, dlg |-> d,
                                session |-> session, escaped |-> FALSE])
  /\ UNCHANGED <<pointer, presses, overlay_window, overlay_origin, canvas_offset_x, rectangle,
                 resize_handles, drag_data, pressed, dialog, dialogs, session,
                 lastCapture>>

\* on_save() of a dialog left over from an earlier session when no overlay
\* exists: canvas is None, canvas.coords raises, nothing changes.
OnSaveNoCanvas(d) ==
  /\ dialogs[d].state = "shown"
  /\ rectangle = None
  /\ UNCHANGED vars

\* The timer thread runs take_screenshot five seconds after its start; the
\* timers run out in the order they were started.
TimerFire(cursor, clipOk, fileOk) ==
  /\ timers /= <<>>
  /\ timers' = Tail(timers)
  /\ TakeScreenshot(Head(timers).rect, Head(timers).dlg,
                    [session |-> Head(timers).session, timer |-> TRUE,
                     escaped |-> Head(timers).escaped],
                    cursor, clipOk, fileOk)
  /\ UNCHANGED <<pointer, presses, config, overlay_origin, canvas_offset_x, drag_data, dialog,
                 session>>

\* on_cancel() of dialog d: destroy_overlay() and dialog.destroy() on the
\* global dialog.
OnCancel(d) ==
  /\ dialogs[d].state = "shown"
  /\ overlay_window' = "none"
  /\ rectangle' = None
  /\ resize_handles' = <<>>
  /\ pressed' = FALSE
  /\ dialogs' = DestroyDialog(dialogs, dialog)
  /\ UNCHANGED <<pointer, presses, config, overlay_origin, canvas_offset_x, drag_data, dialog,
                 timers, session, lastCapture>>

\* on_press(Key.esc) in the listener thread: destroy_overlay() and, if the
\* global dialog is set, dialog.destroy().  No timer is cancelled; escaped
\* only records which pending timers were started before this key press.
MarkEscaped(ts) == [i \in 1..Len(ts) |-> [ts[i] EXCEPT !.escaped = TRUE]]

OnPressEsc ==
  /\ overlay_window' = "none"
  /\ rectangle' = None
  /\ resize_handles' = <<>>
  /\ pressed' = FALSE
  /\ dialogs' = DestroyDialog(dialogs, dialog)
  /\ timers' = MarkEscaped(timers)
  /\ UNCHANGED <<pointer, presses, config, overlay_origin, canvas_offset_x, drag_data, dialog,
                 session, lastCapture>>

\* ------------------------------------------------------------------ threads
\* The thread each handler runs on.  The Tk main loop (root.mainloop) runs
\* the canvas bindings and the dialog's callbacks.
MainloopStep ==
  \/ \E p \in FewPressPoints(rectangle) : StartDrag(p[1], p[2])
  \/ \E p \in FewMovePoints : Drag(p[1], p[2])
  \/ StopDrag
  \/ \E d \in 1..Len(dialogs), k \in OptionNames : ToggleOption(d, k)
  \/ \E d \in 1..Len(dialogs), clipOk \in BOOLEAN, fileOk \in BOOLEAN :
       \E c \in CursorPoints(rectangle, canvas_offset_x) :
         OnSaveNow(d, c, clipOk, fileOk)
  \/ \E d \in 1..Len(dialogs) : OnSaveDelayed(d)
  \/ \E d \in 1..Len(dialogs) : OnSaveNoCanvas(d)
  \/ \E d \in 1..Len(dialogs) : OnCancel(d)

\* The other handlers run elsewhere: win32_event_filter and on_press (hence
\* create_overlay and the Escape handling) on the keyboard.Listener thread,
\* a delayed take_screenshot on its threading.Timer thread.

\* ----------------------------------------------------------- specifications
\* The three specifications run the same handlers from the same initial
\* state and differ in the inputs they feed them.

\* Session lifecycle: every handler, one monitor, few pointer positions.
Next ==
  \/ CreateOverlay(LayoutSingle, 40, 30)
  \/ \E p \in FewPressPoints(rectangle) : StartDrag(p[1], p[2])
  \/ \E p \in FewMovePoints : Drag(p[1], p[2])
  \/ StopDrag
  \/ \E d \in 1..Len(dialogs), k \in FewOptionNames : ToggleOption(d, k)
  \/ \E d \in 1..Len(dialogs), clipOk \in BOOLEAN, fileOk \in BOOLEAN :
       \E c \in CursorPoints(rectangle, canvas_offset_x) :
         OnSaveNow(d, c, clipOk, fileOk)
  \/ \E d \in 1..Len(dialogs) : OnSaveDelayed(d)
  \/ \E d \in 1..Len(dialogs) : OnSaveNoCanvas(d)
  \/ \E clipOk \in BOOLEAN, fileOk \in BOOLEAN :
       \E c \in CursorPoints(IF timers = <<>> THEN None ELSE Head(timers).rect,
                            canvas_offset_x) :
         TimerFire(c, clipOk, fileOk)
  \/ \E d \in 1..Len(dialogs) : OnCancel(d)
  \/ OnPressEsc

Spec == Init /\ [][Next]_vars

\* Pointer gestures: one session, every press point and every lattice
\* position of the pointer.
GestureNext ==
  \/ session = 0 /\ CreateOverlay(LayoutSingle, 40, 30)
  \/ \E p \in PressPoints(rectangle) : StartDrag(p[1], p[2])
  \/ \E p \in CanvasPoints(rectangle) : PressElsewhere(p[1], p[2])
  \/ \E p \in MovePoints : Drag(p[1], p[2])
  \/ StopDrag

SpecGesture == Init /\ [][GestureNext]_vars

\* Capture pipeline: one session, every checkbox, every outcome of the two
\* sinks, the pointer inside, on the corner of and outside the grabbed box.
CaptureNext ==
  \/ session = 0 /\ CreateOverlay(LayoutSingle, 40, 30)
  \/ \E d \in 1..Len(dialogs), k \in OptionNames : ToggleOption(d, k)
  \/ \E d \in 1..Len(dialogs), clipOk \in BOOLEAN, fileOk \in BOOLEAN :
       \E c \in MoreCursorPoints(rectangle, canvas_offset_x) :
         OnSaveNow(d, c, clipOk, fileOk)
  \/ \E d \in 1..Len(dialogs) : OnSaveDelayed(d)
  \/ \E clipOk \in BOOLEAN, fileOk \in BOOLEAN :
       \E c \in MoreCursorPoints(IF timers = <<>> THEN None
                                  ELSE Head(timers).rect, canvas_offset_x) :
         TimerFire(c, clipOk, fileOk)
  \/ \E d \in 1..Len(dialogs) : OnCancel(d)

SpecCapture == Init /\ [][CaptureNext]_vars

\* The 1280 x 800 desktop: sessions opened with the pointer at (640, 400) on
\* a record of DesktopConfigs, the rectangle moved or resized, and the session
\* ended by Cancel or Escape.
DesktopInit ==
  /\ config \in DesktopConfigs
  /\ overlay_window = "none"
  /\ overlay_origin = <<0, 0>>
  /\ canvas_offset_x = 0
  /\ rectangle = None
  /\ resize_handles = <<>>
  /\ drag_data = IdleDragData
  /\ pressed = FALSE
  /\ dialog = 0
  /\ dialogs = <<>>
  /\ timers = <<>>
  /\ session = 0
  /\ presses = 0
  /\ pointer = <<0, 0>>
  /\ lastCapture = <<>>

DesktopNext ==
  \/ \E monitors \in DesktopLayouts : CreateOverlay(monitors, 640, 400)
  \/ \E p \in FewPressPoints(rectangle) : StartDrag(p[1], p[2])
  \/ \E p \in {<<640, 400>>, <<320, 200>>} : Drag(p[1], p[2])
  \/ StopDrag
  \/ \E d \in 1..Len(dialogs) : OnCancel(d)
  \/ OnPressEsc

SpecDesktop == DesktopInit /\ [][DesktopNext]_vars

\* The capture pipeline with the guarantee threading.Timer gives: a started
\* timer runs its function after the delay.
CaptureTimerStep ==
  \E clipOk \in BOOLEAN, fileOk \in BOOLEAN :
    \E c \in MoreCursorPoints(IF timers = <<>> THEN None
                               ELSE Head(timers).rect, canvas_offset_x) :
      TimerFire(c, clipOk, fileOk)

SpecCaptureLive == SpecCapture /\ WF_vars(CaptureTimerStep)

\* Monitor layouts: every layout and pointer position at the Print Screen
\* press, sessions ended by an immediate Save, Cancel or Escape.
LayoutNext ==
  \/ \E monitors \in Layouts, p \in MousePoints :
       CreateOverlay(monitors, p[1], p[2])
  \/ \E p \in FewPressPoints(rectangle) : StartDrag(p[1], p[2])
  \/ \E p \in FewMovePoints : Drag(p[1], p[2])
  \/ StopDrag
  \/ \E d \in 1..Len(dialogs), clipOk \in BOOLEAN, fileOk \in BOOLEAN :
       \E c \in CursorPoints(rectangle, canvas_offset_x) :
         OnSaveNow(d, c, clipOk, fileOk)
  \/ \E d \in 1..Len(dialogs) : OnCancel(d)
  \/ OnPressEsc

SpecLayout == Init /\ [][LayoutNext]_vars

\* ------------------------------------------------------------------ claims
\* A rectangle with x1 < x2 and y1 < y2.
Proper(rc) == rc[1] < rc[3] /\ rc[2] < rc[4]

\* A step that handles a B1-Motion event, a ButtonPress-1 event.
DragStep == \E p \in MovePoints \cup FewMovePoints : Drag(p[1], p[2])
PressStep == \E p \in PressPoints(rectangle) : StartDrag(p[1], p[2])

\* A B1-Motion step taken in the Resizing state.
ResizingStep ==
  DragStep /\ ~drag_data.dragging /\ drag_data.resizing /= "none"

\* The edges a handle controls.
MovesLeft(h) == h \in {"top_left", "bottom_left", "left_mid"}
MovesRight(h) == h \in {"top_right", "bottom_right", "right_mid"}
MovesTop(h) == h \in {"top_left", "top_right", "top_mid"}
MovesBottom(h) == h \in {"bottom_left", "bottom_right", "bottom_mid"}

\* The rectangle with the edges handle h controls set to the pointer's
\* coordinates and every other edge kept.
EdgesSetToPointer(h, rc, x, y) ==
  <<IF MovesLeft(h) THEN x ELSE rc[1], IF MovesTop(h) THEN y ELSE rc[2],
    IF MovesRight(h) THEN x ELSE rc[3], IF MovesBottom(h) THEN y ELSE rc[4]>>

\* The pointer does not carry an edge that h controls past the opposite edge.
NonCrossing(h, rc, x, y) ==
  /\ MovesLeft(h) => x <= rc[3]
  /\ MovesRight(h) => x >= rc[1]
  /\ MovesTop(h) => y <= rc[4]
  /\ MovesBottom(h) => y >= rc[2]

\* C1: after every pointer move handled while dragging or resizing, the
\* rectangle has x1 < x2 and y1 < y2 (a move that starts from such a
\* rectangle ends in one, whatever edge is carried past its opposite).
C1_MoveKeepsRectangleProper ==
  [][(/\ DragStep
      /\ drag_data.dragging \/ drag_data.resizing /= "none"
      /\ Proper(rectangle))
     => Proper(rectangle')]_vars

\* C2: a resize never leaves a width or height below one pixel, and an edge
\* that would reach or cross the opposite edge is pinned one pixel from it.
C2_ResizePinsAtOnePixel ==
  [][(ResizingStep /\ Proper(rectangle)) =>
       LET h == drag_data.resizing
           x == pointer'[1]
           y == pointer'[2]
       IN  /\ rectangle'[3] - rectangle'[1] >= 1
           /\ rectangle'[4] - rectangle'[2] >= 1
           /\ (MovesLeft(h) /\ x >= rectangle[3])
                => rectangle'[1] = rectangle[3] - 1
           /\ (MovesRight(h) /\ x <= rectangle[1])
                => rectangle'[3] = rectangle[1] + 1
           /\ (MovesTop(h) /\ y >= rectangle[4])
                => rectangle'[2] = rectangle[4] - 1
           /\ (MovesBottom(h) /\ y <= rectangle[2])
                => rectangle'[4] = rectangle[2] + 1]_vars

\* Screen coordinates of a canvas rectangle of an overlay placed at origin.
ToScreen(rc, origin) ==
  <<rc[1] + origin[1], rc[2] + origin[2], rc[3] + origin[1], rc[4] + origin[2]>>

WithinMonitor(r, m) ==
  /\ m.x <= r[1] /\ r[3] <= m.x + m.width
  /\ m.y <= r[2] /\ r[4] <= m.y + m.height

\* C3: the rectangle shown at session start has positive width and height
\* and lies within the monitor under the pointer (the first monitor if the
\* pointer is in none), whatever record was persisted.
C3_StartRectangleOnCurrentMonitor ==
  [][\A monitors \in Layouts, p \in MousePoints :
       CreateOverlay(monitors, p[1], p[2]) =>
         /\ Proper(rectangle')
         /\ WithinMonitor(ToScreen(rectangle', overlay_origin'),
                          CurrentMonitor(monitors, p[1], p[2]))]_vars

\* C4: the controller is never marked dragging and resizing at once, and
\* drag_data changes only on a pointer press or a pointer release.
C4_OneInteractionState ==
  [][/\ ~(drag_data'.dragging /\ drag_data'.resizing /= "none")
     /\ drag_data' /= drag_data => (PressStep \/ StopDrag)]_vars

\* C5: a Print Screen press while a session is open creates no overlay and
\* no dialog and leaves the open session as it is.
C5_TriggerWhileOpenIsNoOp ==
  [][(overlay_window = "shown" /\ session' /= session) =>
       UNCHANGED <<overlay_window, rectangle, resize_handles, drag_data,
                   pressed, dialog, dialogs>>]_vars

\* C6: no screen grab is taken for a delayed confirm after Escape was
\* pressed during its countdown.
C6_EscapeAbortsDelayedCapture ==
  lastCapture /= <<>> => ~lastCapture[1].escaped

\* C7: at most one delayed-capture timer is pending, no timer of an earlier
\* session is pending while a later overlay exists, and no timer fires
\* against a session later than the one that started it.
C7_OneTimerOfThisSession ==
  /\ Len(timers) <= 1
  /\ overlay_window /= "none" =>
       \A i \in 1..Len(timers) : timers[i].session = session
  /\ lastCapture /= <<>> => lastCapture[1].from = lastCapture[1].at

\* C8: the bounding box handed to the screen grab is the selection rectangle
\* translated by the overlay's origin (min_x, min_y).
C8_GrabBoxIsTranslatedRectangle ==
  lastCapture /= <<>> =>
    lastCapture[1].bbox = ToScreen(lastCapture[1].rect, lastCapture[1].origin)

\* C9 as stated: every pointer move while resizing with handle h sets the
\* edges h controls to the pointer's coordinates and keeps the other edges.
C9_ResizeSetsControlledEdges ==
  [][ResizingStep =>
       rectangle' = EdgesSetToPointer(drag_data.resizing, rectangle,
                                      pointer'[1], pointer'[2])]_vars

\* C9 amended: in the Resizing state with handle h, a pointer move that does
\* not carry an edge h controls past the opposite edge sets exactly the edges
\* h controls to the pointer's coordinates and leaves every other edge as it
\* was; from {100,100,500,400}, bottom_right moved to (700,500) gives
\* {100,100,700,500}.
C9_ResizeWithoutCrossing ==
  [][/\ DragCoords([IdleDragData EXCEPT !.resizing = "bottom_right"],
                   <<100, 100, 500, 400>>, 700, 500) = <<100, 100, 700, 500>>
     /\ (/\ ResizingStep
         /\ NonCrossing(drag_data.resizing, rectangle, pointer'[1], pointer'[2]))
        => rectangle' = EdgesSetToPointer(drag_data.resizing, rectangle,
                                          pointer'[1], pointer'[2])]_vars

\* A resize with bottom_right has moved the corner of the 40 x 30 rectangle
\* at (20, 15) to the pointer at (40, 30).
C9_Witness ==
  /\ pressed
  /\ ~drag_data.dragging
  /\ drag_data.resizing = "bottom_right"
  /\ pointer = <<40, 30>>
  /\ rectangle = <<20, 15, 40, 30>>

\* C10: every pointer move while dragging keeps the rectangle's width and
\* height and keeps the pointer's offset from the top-left corner.
C10_DragKeepsSizeAndGrabOffset ==
  [][(DragStep /\ drag_data.dragging) =>
       /\ rectangle'[3] - rectangle'[1] = rectangle[3] - rectangle[1]
       /\ rectangle'[4] - rectangle'[2] = rectangle[4] - rectangle[2]
       /\ pointer'[1] - rectangle'[1] = pointer[1] - rectangle[1]
       /\ pointer'[2] - rectangle'[2] = pointer[2] - rectangle[2]]_vars

\* The point lies within the rectangle (its border and its interior).
InBody(rc, x, y) == rc[1] <= x /\ x <= rc[3] /\ rc[2] <= y /\ y <= rc[4]

\* A button press at (x, y) of the canvas, on an item or not.
PressAt(x, y) == StartDrag(x, y) \/ PressElsewhere(x, y)

\* C11: a press inside no handle box and outside the rectangle body changes
\* neither the interaction state nor the rectangle and neither confirms nor
\* cancels the session; a press inside no handle box but within the body
\* starts Dragging.
C11_PressOutsideIsNoOpBodyDrags ==
  [][\A p \in PressPoints(rectangle) \cup CanvasPoints(rectangle) :
       (PressAt(p[1], p[2]) /\ HitHandle(resize_handles, p[1], p[2]) = "none")
         => IF InBody(rectangle, p[1], p[2])
            THEN drag_data'.dragging
            ELSE UNCHANGED <<drag_data, rectangle, resize_handles,
                             overlay_window, dialog, dialogs, config,
                             timers, lastCapture>>]_vars

\* The corner handles, and the handles whose box contains a point.
Corners == {"top_left", "top_right", "bottom_left", "bottom_right"}
HandlesAt(boxes, x, y) == {h \in HandleNames : InBox(boxes[h], x, y)}

\* The corner or edge midpoint of the rectangle that handle h sits on.
Anchor(h, rc) ==
  <<IF MovesLeft(h) THEN rc[1] ELSE IF MovesRight(h) THEN rc[3]
    ELSE rc[1] + ((rc[3] - rc[1]) \div 2),
    IF MovesTop(h) THEN rc[2] ELSE IF MovesBottom(h) THEN rc[4]
    ELSE rc[2] + ((rc[4] - rc[2]) \div 2)>>

\* Position of a handle in the order the press handler tries them.
Rank(h) == CHOOSE i \in 1..Len(HandleOrder) : HandleOrder[i] = h

\* C12: every handle box is the 10-pixel square centred on its corner or edge
\* midpoint, and a press picks at most one handle: none when no box contains
\* the point, else the first handle of the fixed order whose box contains it,
\* a corner whenever a corner box is among those that contain it.
C12_HitTestFirstInPriorityOrder ==
  [][\A p \in PressPoints(rectangle) :
       StartDrag(p[1], p[2]) =>
         LET hits == HandlesAt(resize_handles, p[1], p[2])
             got == drag_data'.resizing
         IN  /\ \A h \in HandleNames :
                  resize_handles[h] =
                    <<Anchor(h, rectangle)[1] - 5, Anchor(h, rectangle)[2] - 5,
                      Anchor(h, rectangle)[1] + 5, Anchor(h, rectangle)[2] + 5>>
             /\ hits = {} => (got = drag_data.resizing /\ drag_data'.dragging)
             /\ hits /= {} =>
                  /\ got \in hits
                  /\ \A h \in hits : Rank(got) <= Rank(h)
                  /\ (hits \cap Corners /= {}) => got \in Corners]_vars

\* A press has picked a corner handle at a point that the box of an
\* edge-midpoint handle contains too.
C12_Witness ==
  /\ pressed
  /\ presses >= 1
  /\ drag_data.resizing \in Corners
  /\ \E h \in HandleNames \ Corners :
       InBox(resize_handles[h], pointer[1], pointer[2])

\* C13: after Escape, pressed in any interaction state, no overlay and no
\* dialog exist and the rectangle is discarded, nothing having been grabbed
\* by the key press.
C13_EscapeEndsSession ==
  [][OnPressEsc =>
       /\ overlay_window' = "none"
       /\ rectangle' = None
       /\ \A d \in 1..Len(dialogs') : dialogs'[d].state = "destroyed"
       /\ lastCapture' = lastCapture]_vars

\* C14: when both sinks are requested, a failing clipboard sink does not keep
\* the file sink from running and a failing file sink leaves the clipboard
\* sink done.
C14_SinksAreIndependent ==
  (/\ lastCapture /= <<>>
   /\ lastCapture[1].clipboard /= "skipped"
   /\ lastCapture[1].file /= "skipped")
    => /\ lastCapture[1].clipboard = "failed" => lastCapture[1].file /= "notrun"
       /\ lastCapture[1].file = "failed" => lastCapture[1].clipboard = "ok"

\* C15: within one session the screen is grabbed at most once, however many
\* confirms are given before the session closes.
C15_OneCapturePerSession ==
  lastCapture /= <<>> => lastCapture[1].n <= 1

\* C16: a rectangle with positive width and height that lies on the monitor
\* and was confirmed in one session is the rectangle the next session starts
\* with, the monitors and the pointer being the same.
C16_RoundTrip ==
  [][(/\ session' = session + 1
      /\ lastCapture /= <<>>
      /\ ~lastCapture[1].timer
      /\ lastCapture[1].at = session
      /\ config /= <<>>
      /\ config[1].rectangle =
           NewConfig(lastCapture[1].rect, DefaultOptions).rectangle
      /\ Proper(lastCapture[1].rect)
      /\ WithinMonitor(ToScreen(lastCapture[1].rect, overlay_origin),
                       LayoutSingle[1]))
     => rectangle' = lastCapture[1].rect]_vars

\* The persisted rectangle as four corners, in the coordinates it was saved in.
PersistedCorners(file) ==
  LET g == LoadRectangleConfig(file)
  IN  <<g[1], g[2], g[1] + g[3], g[2] + g[4]>>

\* The rectangle of half the monitor's width and height centred on monitor m,
\* in the coordinates of an overlay placed at origin.
CentredOn(m, origin) ==
  LET w == m.width \div 2
      h == m.height \div 2
      x == m.x + (m.width \div 2) - (w \div 2) - origin[1]
      y == m.y + (m.height \div 2) - (h \div 2) - origin[2]
  IN  <<x, y, x + w, y + h>>

\* C17: when the persisted rectangle does not lie fully within the monitor M
\* under the pointer, the session starts with the rectangle of half M's width
\* and height centred on M, in overlay coordinates.
C17_ResetIsCentredOnCurrentMonitor ==
  [][\A monitors \in Layouts, p \in MousePoints :
       (/\ CreateOverlay(monitors, p[1], p[2])
        /\ ~WithinMonitor(ToScreen(PersistedCorners(config), overlay_origin'),
                          CurrentMonitor(monitors, p[1], p[2])))
         => rectangle' = CentredOn(CurrentMonitor(monitors, p[1], p[2]),
                                   overlay_origin')]_vars

\* A session starts on the single 1280 x 800 monitor.
DesktopStart == CreateOverlay(DesktopSingle, 640, 400)

\* C18 as stated: with the record {x: 100, y: 100, width: 400, height: 300}
\* the session on the single monitor {0,0,1280,800} starts with the centred
\* rectangle {320,200,960,600}.
C18_NearRecordIsReset ==
  [][(DesktopStart /\ config = <<SavedNear>>)
       => rectangle' = <<320, 200, 960, 600>>]_vars

\* C18 amended: on the single monitor {0,0,1280,800} the record {100,100,
\* 400,300} lies on the monitor and is kept, the session starting with
\* {100,100,500,400}, as long as canvas_offset_x is 0; the record {1500,100,
\* 400,300}, which lies beyond the monitor, is reset to the centred 640 x 400
\* rectangle {320,200,960,600}.  With canvas_offset_x left at 1280 by an
\* earlier session that had a monitor on the left, the first record is reset
\* to the centred rectangle shifted by that offset, {1600,200,2240,600}, and
\* the second is kept at {1500,100,1900,400}.
C18_NearRecordKeptFarRecordReset ==
  [][DesktopStart =>
       IF canvas_offset_x = 0
       THEN /\ config = <<SavedNear>> => rectangle' = <<100, 100, 500, 400>>
            /\ config = <<SavedFar>> => rectangle' = <<320, 200, 960, 600>>
       ELSE /\ canvas_offset_x = 1280
            /\ config = <<SavedNear>> => rectangle' = <<1600, 200, 2240, 600>>
            /\ config = <<SavedFar>> => rectangle' = <<1500, 100, 1900, 400>>]_vars

\* A session has started on the single 1280 x 800 monitor with the record
\* {100,100,400,300} and shows it unchanged.
C18_Witness ==
  /\ config = <<SavedNear>>
  /\ overlay_origin = <<0, 0>>
  /\ canvas_offset_x = 0
  /\ overlay_window = "shown"
  /\ presses = 0
  /\ rectangle = <<100, 100, 500, 400>>

\* A step in which take_screenshot runs with the pointer at c, from the Save
\* button or from the timer, and the cursor positions such a step may see.
GrabStep(c) ==
  \/ \E d \in 1..Len(dialogs), clipOk \in BOOLEAN, fileOk \in BOOLEAN :
       OnSaveNow(d, c, clipOk, fileOk)
  \/ \E clipOk \in BOOLEAN, fileOk \in BOOLEAN : TimerFire(c, clipOk, fileOk)

GrabCursors ==
  MoreCursorPoints(rectangle, canvas_offset_x)
    \cup MoreCursorPoints(IF timers = <<>> THEN None ELSE Head(timers).rect,
                          canvas_offset_x)

\* C19: the pointer glyph is composited exactly when capture_pointer is set
\* and the pointer at capture time lies inside the captured box (strictly
\* between its edges), and it is anchored at the pointer position minus the
\* box's top-left corner; the pointer at (650,450) in {100,100,700,500} gives
\* (550,350).
C19_GlyphIffPointerInsideAnchoredLocally ==
  [][/\ PointerGlyph(TRUE, <<100, 100, 700, 500>>, 650, 450) = <<550, 350>>
     /\ \A c \in GrabCursors :
          (GrabStep(c) /\ lastCapture' /= lastCapture) =>
            LET g == lastCapture'[1]
                inside == /\ g.bbox[1] < c[1] /\ c[1] < g.bbox[3]
                          /\ g.bbox[2] < c[2] /\ c[2] < g.bbox[4]
            IN  /\ g.glyph /= None <=> (g.capture_pointer /\ inside)
                /\ g.glyph /= None =>
                     g.glyph = <<c[1] - g.bbox[1], c[2] - g.bbox[2]>>]_vars

\* A grab with capture_pointer set has composited the glyph one pixel inside
\* the top-left corner of the 40 x 30 box at (20, 15).
C19_Witness ==
  /\ lastCapture /= <<>>
  /\ lastCapture[1].capture_pointer
  /\ lastCapture[1].bbox = <<20, 15, 60, 45>>
  /\ lastCapture[1].glyph = <<1, 1>>

\* C20: the overlay, the rectangle, the handles and the dialogs are created,
\* changed and destroyed only by steps of the UI thread, never by a step of
\* the listener thread or of the timer thread.
C20_OnlyUIThreadMutatesUIState ==
  [][(<<overlay_window, rectangle, resize_handles, dialog, dialogs>>' /=
        <<overlay_window, rectangle, resize_handles, dialog, dialogs>>)
       => MainloopStep]_vars

\* A confirm of dialog d: the Save button or the Return key.
ConfirmStep(d) ==
  \/ \E clipOk \in BOOLEAN, fileOk \in BOOLEAN :
       \E c \in CursorPoints(rectangle, canvas_offset_x) :
         OnSaveNow(d, c, clipOk, fileOk)
  \/ OnSaveDelayed(d)

\* C21: the persisted record changes only in a confirm; Cancel, Escape and
\* every pointer event leave it as it is; a confirm writes the rectangle's
\* current x, y, width and height and the dialog's current options.
C21_PersistOnlyAtConfirm ==
  [][/\ config' /= config => \E d \in 1..Len(dialogs) : ConfirmStep(d)
     /\ (\/ PressStep
         \/ DragStep
         \/ StopDrag
         \/ OnPressEsc
         \/ \E d \in 1..Len(dialogs) : OnCancel(d)) => config' = config
     /\ \A d \in 1..Len(dialogs) :
          ConfirmStep(d) =>
            config' = <<[rectangle |->
                           [x |-> rectangle[1], y |-> rectangle[2],
                            width |-> rectangle[3] - rectangle[1],
                            height |-> rectangle[4] - rectangle[2]],
                         dialog |-> dialogs[d].opts]>>]_vars

\* A confirm has written the rectangle that was dragged to {30,30,70,60}.
C21_Witness ==
  /\ lastCapture /= <<>>
  /\ lastCapture[1].rect = <<30, 30, 70, 60>>
  /\ config /= <<>>
  /\ config[1].rectangle = [x |-> 30, y |-> 30, width |-> 40, height |-> 30]

\* C22: when the screen is grabbed, the overlay is hidden and no dialog is
\* visible.
C22_WindowsHiddenBeforeGrab ==
  [][(lastCapture' /= lastCapture /\ lastCapture' /= <<>>) =>
       /\ lastCapture'[1].overlay /= "shown"
       /\ overlay_window' /= "shown"
       /\ \A d \in 1..Len(dialogs') : dialogs'[d].state /= "shown"]_vars

\* The x-offset that belongs to a monitor set whose leftmost edge is at minX.
OffsetOf(minX) == IF minX < 0 THEN 0 - minX ELSE 0

\* C23: the x-offset a session validates with and captures with is the one
\* derived from that session's monitors, -minX if minX < 0 and 0 otherwise.
C23_OffsetIsOfThisSession ==
  [][/\ \A monitors \in Layouts, p \in MousePoints :
          CreateOverlay(monitors, p[1], p[2]) =>
            canvas_offset_x' = OffsetOf(VirtualMinX(monitors))
     /\ lastCapture' /= <<>> =>
          lastCapture'[1].offset = OffsetOf(lastCapture'[1].origin[1])]_vars

\* C24: a newly opened session starts Idle, neither dragging nor resizing,
\* however the previous session ended.
C24_NewSessionStartsIdle ==
  [][session' = session + 1 =>
       (~drag_data'.dragging /\ drag_data'.resizing = "none")]_vars

\* C25: once a session is confirmed, with or without delay, its overlay and
\* its dialog are eventually destroyed, whatever the sinks do.
C25_ConfirmedSessionCloses ==
  (lastCapture /= <<>> \/ timers /= <<>>)
    ~> (/\ overlay_window = "none"
        /\ dialog /= 0
        /\ dialogs[dialog].state = "destroyed")

====
